---- MODULE Spec2Model ----
(***************************************************************************)
(* Model of the Simplex tableau engine of simplex.py and                   *)
(* simplex_with_counts.py: tableau construction, pivot selection, the      *)
(* dense and the sparse pivot executors and the solver loops.              *)
(*                                                                         *)
(* Conventions.                                                            *)
(*  - Python lists are sequences; indexes are 1-based here, so Python      *)
(*    index k is index k+1, row[-1] is row[Len(row)] and row[-2] is        *)
(*    row[Len(row)-1].                                                     *)
(*  - Numbers are exact rationals <<numerator, denominator>> in lowest     *)
(*    terms with a positive denominator.  Python's / yields floats; the    *)
(*    rounding of floats is not modelled.                                  *)
(*  - An exception that leaves simplex / simplex_w_counts is the state     *)
(*    pc = "raised" with the exception's class name in error.              *)
(*  - counts is the dictionary of operation counters of simplex_w_counts;  *)
(*    simplex has none and leaves it at zero.                              *)
(***************************************************************************)
EXTENDS Integers, Sequences, FiniteSets, TLC

VARIABLES A, b, c, b0, solver, func, matrix, pc, error, s_tableau,
          pivot_row_index, pivot_col_index, iters, trace, calls, first,
          counts

vars == <<A, b, c, b0, solver, func, matrix, pc, error, s_tableau,
          pivot_row_index, pivot_col_index, iters, trace, calls, first,
          counts>>

----------------------------------------------------------------------------
(* Bounds of the model.                                                    *)

MaxCoef == 2
MaxBound == 1
MaxIters == 5
MaxCalls == 3

----------------------------------------------------------------------------
(* Arithmetic on numbers.                                                  *)

Abs(x) == IF x < 0 THEN -x ELSE x

RECURSIVE GCD(_, _)
GCD(x, y) == IF y = 0 THEN x ELSE GCD(y, x % y)

Norm(n, d) ==
    LET s == IF d < 0 THEN -1 ELSE 1
        g == GCD(Abs(n), Abs(d))
    IN  <<(s * n) \div g, (s * d) \div g>>

R(i) == <<i, 1>>
Zero == R(0)
One == R(1)

RNeg(x) == <<-x[1], x[2]>>
RSub(x, y) == Norm(x[1] * y[2] - y[1] * x[2], x[2] * y[2])
RMul(x, y) == Norm(x[1] * y[1], x[2] * y[2])
RDiv(x, y) == Norm(x[1] * y[2], x[2] * y[1])
RLt(x, y) == x[1] * y[2] < y[1] * x[2]
RLe(x, y) == x[1] * y[2] <= y[1] * x[2]
RAdd(x, y) == Norm(x[1] * y[2] + y[1] * x[2], x[2] * y[2])

(* min(seq): the least element of a non-empty list of numbers.             *)
MinOf(s) == CHOOSE x \in {s[k] : k \in 1..Len(s)} :
                \A k \in 1..Len(s) : RLe(x, s[k])

(* list.index(v): the first position holding v.                            *)
IndexOf(s, v) == CHOOSE k \in 1..Len(s) :
                    s[k] = v /\ \A h \in 1..(k - 1) : s[h] # v

----------------------------------------------------------------------------
(* Setup: negation of the objective and slack augmentation.                *)

(* Variant: the objective is handed to the builder as given.               *)
KeepObjective(fn, vecA) == vecA

(* A = [-a for a in A], done by simplex always and by simplex_w_counts     *)
(* when func == 'max'.                                                     *)
NegateObjective(fn, vecA) ==
    IF fn = "max" THEN [k \in 1..Len(vecA) |-> RNeg(vecA[k])] ELSE vecA

(* b[i].extend([1 if i == j else 0 for j in range(num_of_slack_variables)]) *)
(* for every row i of b; it mutates the caller's list object.              *)
ExtendWithSlack(matB) ==
    [i \in 1..Len(matB) |->
        matB[i] \o [j \in 1..Len(matB) |-> IF i = j THEN One ELSE Zero]]

----------------------------------------------------------------------------
(* Tableau Builder.                                                        *)

(* The IndexError cases of construct_simplex_tableau: c[i] with            *)
(* i >= len(c), and s_tableau[i][j] = coef with j >= num_of_columns.       *)
ConstructRaises(negA, extB, vecC) ==
    LET ns == Len(extB)
        ncols == Len(negA) + ns + 2
    IN  \/ Len(vecC) < ns
        \/ \E i \in 1..ns : Len(extB[i]) - ns > ncols

(* The tableau built with num_of_columns = ncols.                          *)
BuildTableau(negA, extB, vecC, ncols) ==
    LET nv == Len(negA)
        ns == Len(extB)
        nrows == ns + 1
        zeros == [i \in 1..nrows |-> [j \in 1..ncols |-> Zero]]
        slack == [i \in 1..nrows |-> [j \in 1..ncols |->
                    IF i <= ns /\ j = nv + i THEN One
                    ELSE IF i <= ns /\ j = ncols THEN vecC[i]
                    ELSE zeros[i][j]]]
        objective == [i \in 1..nrows |-> [j \in 1..ncols |->
                    IF i = nrows /\ j <= nv THEN negA[j]
                    ELSE IF i = nrows /\ j = ncols - 1 THEN One
                    ELSE slack[i][j]]]
        (* constraint[:-num_of_slack_variables] *)
        head(i) == SubSeq(extB[i], 1, Len(extB[i]) - ns)
    IN  [i \in 1..nrows |-> [j \in 1..ncols |->
            IF i <= ns /\ j <= Len(head(i)) THEN head(i)[j]
            ELSE objective[i][j]]]

(* Variant: num_of_columns counts the RHS column but not the Z column.     *)
ConstructWithoutZColumn(negA, extB, vecC) ==
    BuildTableau(negA, extB, vecC, Len(negA) + Len(extB) + 1)

(* Variant: s_tableau[i][num_of_variables] = 1, so every constraint row    *)
(* gets its 1 in the first slack column.                                   *)
ConstructSlackInFirstColumn(negA, extB, vecC) ==
    LET nv == Len(negA)
        ns == Len(extB)
        T == BuildTableau(negA, extB, vecC, nv + ns + 2)
    IN  [i \in 1..Len(T) |-> [j \in 1..Len(T[i]) |->
            IF i <= ns /\ j \in (nv + 1)..(nv + ns)
            THEN IF j = nv + 1 THEN One ELSE Zero
            ELSE T[i][j]]]

construct_simplex_tableau(negA, extB, vecC) ==
    BuildTableau(negA, extB, vecC, Len(negA) + Len(extB) + 2)

----------------------------------------------------------------------------
(* Pivot Selector.                                                         *)

(* s_tableau[-1][:-2] *)
BottomRow(T) == SubSeq(T[Len(T)], 1, Len(T[Len(T)]) - 2)

(* Variant: the loop goes on while min(s_tableau[-1][:-2]) <= 0.           *)
LoopConditionNonStrict(T) == RLe(MinOf(BottomRow(T)), Zero)

(* The loop condition min(s_tableau[-1][:-2]) < 0.                         *)
LoopCondition(T) == RLt(MinOf(BottomRow(T)), Zero)

(* Variant: the scan keeps the last position holding the minimum.          *)
FindLastMinimum(T) ==
    CHOOSE k \in 1..Len(BottomRow(T)) :
        /\ BottomRow(T)[k] = MinOf(BottomRow(T))
        /\ \A h \in (k + 1)..Len(BottomRow(T)) :
              BottomRow(T)[h] # MinOf(BottomRow(T))

find_pivot_column(T) == IndexOf(BottomRow(T), MinOf(BottomRow(T)))

(* Variant: the test is row[pivot_col_index] != 0, so a negative entry     *)
(* yields a finite quotient.                                               *)
QuotientOfNonZero(T, i, col) ==
    IF T[i][col] # Zero
    THEN <<"fin", RDiv(T[i][Len(T[i])], T[i][col]), i>>
    ELSE <<"inf", Zero, i>>

(* The tuples (quotient, i); float('inf') is <<"inf", i>>, a finite        *)
(* quotient q is <<"fin", q, i>>.                                          *)
Quotient(T, i, col) ==
    IF RLt(Zero, T[i][col])
    THEN <<"fin", RDiv(T[i][Len(T[i])], T[i][col]), i>>
    ELSE <<"inf", Zero, i>>

(* Python's tuple order on (quotient, i).                                  *)
QuotientLe(x, y) ==
    IF x[1] = "inf" /\ y[1] = "inf" THEN x[3] <= y[3]
    ELSE IF x[1] = "inf" THEN FALSE
    ELSE IF y[1] = "inf" THEN TRUE
    ELSE RLt(x[2], y[2]) \/ (x[2] = y[2] /\ x[3] <= y[3])

(* Variant: the tuples are built as (i, quotient), so min() orders them by  *)
(* row index and always yields the first constraint row.                   *)
PivotRowByIndex(T, col) == 1

calculate_quotients_and_find_pivot_row(T, col) ==
    LET quotients == [i \in 1..(Len(T) - 1) |-> Quotient(T, i, col)]
        least == CHOOSE q \in {quotients[i] : i \in 1..Len(quotients)} :
                    \A i \in 1..Len(quotients) : QuotientLe(q, quotients[i])
    IN  least[3]

----------------------------------------------------------------------------
(* Pivot Executor.                                                         *)

(* Variant: the elimination runs over s_tableau[:-1], so the objective row *)
(* is left as it was.                                                      *)
PivotWithoutObjectiveRow(T, row, col) ==
    LET pivot_element == T[row][col]
        normalized == [j \in 1..Len(T[1]) |-> RDiv(T[row][j], pivot_element)]
    IN  [i \in 1..Len(T) |->
            IF i = row THEN normalized
            ELSE IF i = Len(T) THEN T[i]
            ELSE LET factor == T[i][col]
                 IN  [j \in 1..Len(T[i]) |->
                        RSub(T[i][j], RMul(factor, normalized[j]))]]

(* Dense executor: perform_pivoting and perform_pivoting_w_counts.         *)
perform_pivoting(T, row, col) ==
    LET pivot_element == T[row][col]
        normalized == [j \in 1..Len(T[1]) |-> RDiv(T[row][j], pivot_element)]
    IN  [i \in 1..Len(T) |->
            IF i = row THEN normalized
            ELSE LET factor == T[i][col]
                 IN  [j \in 1..Len(T[i]) |->
                        RSub(T[i][j], RMul(factor, normalized[j]))]]

(* The dense executor divides s_tableau[pivot_row_index][0] first.         *)
DensePivotRaises(T, row, col) == T[row][col] = Zero

(* Sparse executor: entries of the pivot row that are zero are neither     *)
(* divided nor used in the elimination, and rows whose pivot-column entry  *)
(* is zero are skipped.                                                    *)
perform_sparse_pivoting_w_counts(T, row, col) ==
    LET pivot_element == T[row][col]
        normalized == [j \in 1..Len(T[1]) |->
                        IF T[row][j] # Zero THEN RDiv(T[row][j], pivot_element)
                        ELSE T[row][j]]
        afterNorm == [T EXCEPT ![row] = normalized]
    IN  [i \in 1..Len(T) |->
            IF i # row /\ afterNorm[i][col] # Zero
            THEN LET factor == afterNorm[i][col]
                 IN  [j \in 1..Len(T[1]) |->
                        IF normalized[j] # Zero
                        THEN RSub(afterNorm[i][j], RMul(factor, normalized[j]))
                        ELSE afterNorm[i][j]]
            ELSE afterNorm[i]]

(* The sparse executor divides only the non-zero entries of the pivot row. *)
SparsePivotRaises(T, row, col) ==
    /\ T[row][col] = Zero
    /\ \E j \in 1..Len(T[1]) : T[row][j] # Zero

----------------------------------------------------------------------------
(* Operation counters of simplex_with_counts.py: what each routine adds to *)
(* the dictionary counts.                                                  *)

Cnt(cmp, asg, ari, acc, fc) ==
    [comparisons |-> cmp, assignments |-> asg, arithmetic |-> ari,
     accesses |-> acc, func_calls |-> fc]

ZeroCounts == Cnt(0, 0, 0, 0, 0)

CAdd(x, y) ==
    Cnt(x.comparisons + y.comparisons, x.assignments + y.assignments,
        x.arithmetic + y.arithmetic, x.accesses + y.accesses,
        x.func_calls + y.func_calls)

RECURSIVE SumTo(_, _)
SumTo(f, k) == IF k = 0 THEN 0 ELSE SumTo(f, k - 1) + f[k]

(* simplex_w_counts, from its entry to the assignment of s_tableau, the    *)
(* body of construct_simplex_tableau_w_counts left out.                    *)
SetupCounts(fn, vecA, matB) ==
    LET ns == Len(matB)
        max == IF fn = "max" THEN 1 ELSE 0
    IN  Cnt(max + 2 * ns,
            1 + max + ns + 1,
            max * Len(vecA) + ns * ns,
            ns * (ns + 1),
            1 + 1)

ConstructCounts(negA, extB) ==
    LET nv == Len(negA)
        ns == Len(extB)
        ncols == nv + ns + 2
        nrows == ns + 1
        (* len(constraint[:-num_of_slack_variables]), summed over the rows *)
        heads == SumTo([i \in 1..ns |-> Len(extB[i]) - ns], ns)
    IN  Cnt(ns + nv + ns + heads,
            4 + 1 + 2 * ns + nv + 1 + heads,
            3 + ncols * nrows + ns,
            5 * ns + 2 * nv + 2 + 2 * heads,
            2)

(* The head of the while loop body of simplex_w_counts.                    *)
LoopHeadCounts(T) == Cnt(1, 0, 0, Len(T[Len(T)]) - 2, 1)

FindColumnCounts(T) == Cnt(0, 3, 0, (Len(T[Len(T)]) - 2) + 1, 2)

FindRowCounts(T, col) ==
    LET rows == Len(T) - 1
        positive == Cardinality({i \in 1..rows : RLt(Zero, T[i][col])})
    IN  Cnt(2 * rows + (rows - 1),
            1 + rows + 1,
            positive,
            rows + 2 * positive,
            1)

DensePivotCounts(T, row, col) ==
    LET ncols == Len(T[1])
        nrows == Len(T)
        (* len(row), summed over the rows other than the pivot row *)
        cells == SumTo([i \in 1..nrows |-> IF i = row THEN 0 ELSE Len(T[i])],
                       nrows)
    IN  Cnt(ncols + nrows + (nrows - 1),
            1 + ncols + (nrows - 1) + cells,
            ncols + 2 * cells,
            2 + 3 * ncols + (nrows - 1) + 4 * cells,
            cells)

(* Variant: the sparse executor counts as the dense one does, for every    *)
(* cell, zero or not, and for every row, the pivot row included.           *)
SparseCountsEveryCell(T, row, col) ==
    LET ncols == Len(T[1])
        nrows == Len(T)
    IN  Cnt(ncols + nrows + nrows,
            1 + ncols + nrows * (1 + ncols),
            ncols + 2 * nrows * ncols,
            2 + 3 * ncols + nrows * (1 + 4 * ncols),
            nrows * ncols)

SparsePivotCounts(T, row, col) ==
    LET ncols == Len(T[1])
        nrows == Len(T)
        (* non-zero entries of the pivot row *)
        nz == Cardinality({j \in 1..ncols : T[row][j] # Zero})
        (* rows other than the pivot row with a non-zero pivot-column entry *)
        el == Cardinality({i \in 1..nrows : i # row /\ T[i][col] # Zero})
    IN  Cnt(ncols + nrows + el,
            1 + nz + el * (1 + nz),
            nz + 2 * el * nz,
            2 + ncols + nz + el * (1 + 3 * nz),
            0)

----------------------------------------------------------------------------
(* Inputs: the objective vector A, the constraint matrix b and the bound   *)
(* vector c handed to the solvers.                                         *)

Coefs == -1..MaxCoef
Bounds == 0..MaxBound

Vec(n, S) == [1..n -> S]
UpTo(lo, hi, S) == UNION {Vec(k, S) : k \in lo..hi}

Shaped(n, m, SA, SB, SC) ==
    {<<a, bb, cc>> : a \in Vec(n, SA), bb \in Vec(m, Vec(n, SB)), cc \in Vec(m, SC)}

(* The scenarios of the specification's section 8.                         *)
Scenarios ==
    { <<(<<3, 2>>), <<(<<1, 1>>), (<<1, 3>>)>>, (<<4, 6>>)>>,
      <<(<<1>>), <<(<<1>>)>>, (<<5>>)>> }

(* Dimensionally consistent inputs.                                        *)
Consistent ==
    Shaped(1, 1, Coefs, Coefs, -1..MaxBound)
      \cup Shaped(2, 1, Coefs, Coefs, Bounds)
      \cup Shaped(1, 2, Coefs, Coefs, Bounds)
      \cup Shaped(2, 2, 0..(MaxCoef - 1), -1..(MaxCoef - 1), Bounds)

(* Inputs whose row lengths or bound count need not agree with A and b.    *)
Ragged ==
    {<<a, <<r>>, cc>> : a \in UpTo(1, 2, {1}), r \in UpTo(0, 5, {0, 1}),
                        cc \in UpTo(0, 2, {0, 1})}
      \cup {<<(<<1>>), <<r1, r2>>, cc>> : r1 \in UpTo(0, 2, {1}),
                        r2 \in UpTo(0, 2, {1}), cc \in UpTo(1, 3, {1})}

Inputs == Scenarios \cup Consistent \cup Ragged

SmallInputs ==
    Scenarios
      \cup Shaped(1, 1, Coefs, Coefs, Bounds)
      \cup Shaped(2, 1, 0..1, Coefs, Bounds)
      \cup Shaped(1, 2, 0..1, 0..1, Bounds)
      \cup Shaped(1, 3, {1}, {1}, {1})
      \cup Shaped(2, 2, {1}, 0..1, {1})
      \cup {<<(<<1>>), <<r>>, cc>> : r \in UpTo(0, 3, {0, 1}),
                                     cc \in UpTo(0, 2, {0})}

ToVec(v) == [k \in 1..Len(v) |-> R(v[k])]
ToMat(mt) == [i \in 1..Len(mt) |-> ToVec(mt[i])]

IsConsistent(vecA, matB, vecC) ==
    /\ Len(vecC) = Len(matB)
    /\ \A i \in 1..Len(matB) : Len(matB[i]) = Len(vecA)

----------------------------------------------------------------------------
(* The solvers.                                                            *)

Funcs == {"max", "min"}
Matrices == {"dense", "sparse", "other"}

NoResult == [solver |-> "none", func |-> "none", matrix |-> "none",
             outcome |-> "none", error |-> "none", tableau |-> <<>>,
             trace |-> <<>>, counts |-> ZeroCounts]

(* What the current call has handed (or failed to hand) to its caller.     *)
CurrentResult ==
    [solver |-> solver, func |-> func, matrix |-> matrix, outcome |-> pc,
     error |-> error, tableau |-> IF pc = "returned" THEN s_tableau ELSE <<>>,
     trace |-> trace, counts |-> IF pc = "returned" THEN counts ELSE ZeroCounts]

InitWith(S) ==
    /\ \E in \in S : /\ A = ToVec(in[1])
                     /\ b = ToMat(in[2])
                     /\ c = ToVec(in[3])
    /\ b0 = b
    /\ solver = "none" /\ func = "none" /\ matrix = "none"
    /\ pc = "idle" /\ error = "none"
    /\ s_tableau = <<>>
    /\ pivot_row_index = 0 /\ pivot_col_index = 0
    /\ iters = 0 /\ trace = <<>> /\ calls = 0
    /\ first = NoResult
    /\ counts = ZeroCounts

Init == InitWith(Inputs)

(* Entry and setup of a solver, up to the first test of the loop           *)
(* condition: negate the objective, extend the rows of the list object     *)
(* given as b, build the tableau.                                          *)
Setup(sv, fn, mx, arg) ==
    LET negA == NegateObjective(fn, A)
        extB == ExtendWithSlack(arg)
    IN  /\ solver' = sv /\ func' = fn /\ matrix' = mx
        /\ b' = extB
        /\ IF ConstructRaises(negA, extB, c)
           THEN /\ pc' = "raised" /\ error' = "IndexError"
                /\ s_tableau' = <<>>
                /\ counts' = ZeroCounts
           ELSE /\ pc' = "loop" /\ error' = "none"
                /\ s_tableau' = construct_simplex_tableau(negA, extB, c)
                /\ counts' = IF sv = "simplex_w_counts"
                             THEN CAdd(SetupCounts(fn, A, arg),
                                       ConstructCounts(negA, extB))
                             ELSE ZeroCounts
        /\ pivot_row_index' = 0 /\ pivot_col_index' = 0
        /\ iters' = 0 /\ trace' = <<>>
        /\ calls' = calls + 1
        /\ first' = IF calls = 1 THEN CurrentResult ELSE first
        /\ UNCHANGED <<A, c, b0>>

(* simplex(A, b, c): it always negates A and always uses the dense         *)
(* executor perform_pivoting.                                              *)
simplex ==
    /\ pc = "idle" /\ calls = 0
    /\ Setup("simplex", "max", "dense", b)

(* simplex_w_counts(A, b, c, func, matrix) *)
simplex_w_counts ==
    /\ pc = "idle" /\ calls = 0
    /\ \E fn \in Funcs, mx \in Matrices :
          /\ (fn = "min" => mx = "dense")
          /\ Setup("simplex_w_counts", fn, mx, b)

(* One iteration of the while loop of simplex: the call of                 *)
(* find_pivot_column evaluates the name plot_for_gif, which is defined     *)
(* nowhere.                                                                *)
SimplexLoopBody ==
    /\ pc = "loop" /\ solver = "simplex"
    /\ LoopCondition(s_tableau)
    /\ iters < MaxIters
    /\ pc' = "raised" /\ error' = "NameError"
    /\ iters' = iters + 1
    /\ UNCHANGED <<A, b, c, b0, solver, func, matrix, s_tableau,
                   pivot_row_index, pivot_col_index, trace, calls, first,
                   counts>>

(* One iteration of the while loop of simplex_w_counts.                    *)
CountsLoopBody ==
    /\ pc = "loop" /\ solver = "simplex_w_counts"
    /\ LoopCondition(s_tableau)
    /\ iters < MaxIters
    /\ LET col == find_pivot_column(s_tableau)
           row == calculate_quotients_and_find_pivot_row(s_tableau, col)
           raises == \/ matrix = "dense" /\ DensePivotRaises(s_tableau, row, col)
                     \/ matrix = "sparse" /\ SparsePivotRaises(s_tableau, row, col)
           selected == CAdd(CAdd(counts, LoopHeadCounts(s_tableau)),
                            CAdd(FindColumnCounts(s_tableau),
                                 FindRowCounts(s_tableau, col)))
       IN  /\ pivot_col_index' = col
           /\ pivot_row_index' = row
           /\ iters' = iters + 1
           /\ IF raises
              THEN /\ pc' = "raised" /\ error' = "ZeroDivisionError"
                   /\ counts' = selected
                   /\ UNCHANGED <<s_tableau, trace>>
              ELSE /\ UNCHANGED <<pc, error>>
                   /\ s_tableau' =
                        IF matrix = "dense"
                        THEN perform_pivoting(s_tableau, row, col)
                        ELSE IF matrix = "sparse"
                        THEN perform_sparse_pivoting_w_counts(s_tableau, row, col)
                        ELSE s_tableau
                   /\ trace' = IF matrix \in {"dense", "sparse"}
                               THEN Append(trace, <<row, col, s_tableau'>>)
                               ELSE trace
                   /\ counts' =
                        IF matrix = "dense"
                        THEN CAdd(selected, DensePivotCounts(s_tableau, row, col))
                        ELSE IF matrix = "sparse"
                        THEN CAdd(selected, SparsePivotCounts(s_tableau, row, col))
                        ELSE selected
    /\ UNCHANGED <<A, b, c, b0, solver, func, matrix, calls, first>>

(* The loop condition is false: the solver returns s_tableau.              *)
SolverReturn ==
    /\ pc = "loop"
    /\ ~LoopCondition(s_tableau)
    /\ pc' = "returned"
    /\ UNCHANGED <<A, b, c, b0, solver, func, matrix, error, s_tableau,
                   pivot_row_index, pivot_col_index, iters, trace, calls, first,
                   counts>>

Next ==
    \/ simplex
    \/ simplex_w_counts
    \/ SimplexLoopBody
    \/ CountsLoopBody
    \/ SolverReturn

Spec == Init /\ [][Next]_vars

----------------------------------------------------------------------------
(* Successive calls by one caller: with the list objects of the previous   *)
(* call (same = TRUE) or with a fresh copy of the original input.          *)

InitSmall == InitWith(SmallInputs)

Finished == pc \in {"returned", "raised"}

simplex_again ==
    /\ Finished /\ calls \in 1..(MaxCalls - 1)
    /\ \E same \in BOOLEAN :
          Setup("simplex", "max", "dense", IF same THEN b ELSE b0)

simplex_w_counts_again ==
    /\ Finished /\ calls \in 1..(MaxCalls - 1)
    /\ \E same \in BOOLEAN, mx \in Matrices :
          Setup("simplex_w_counts", "max", mx, IF same THEN b ELSE b0)

RepeatNext ==
    \/ Next
    \/ simplex_again
    \/ simplex_w_counts_again

RepeatSpec == InitSmall /\ [][RepeatNext]_vars

----------------------------------------------------------------------------
(* The linear program of the input: maximize A.x subject to b0[i].x <= c[i] *)
(* for every constraint row i and x >= 0.                                  *)

GridMax == 3

NumVars == Len(A)
NumCons == Len(b0)

RECURSIVE DotTo(_, _, _)
DotTo(u, v, k) == IF k = 0 THEN Zero
                  ELSE RAdd(DotTo(u, v, k - 1), RMul(u[k], v[k]))
Dot(u, v) == DotTo(u, v, Len(u))

Feasible(x) ==
    /\ \A j \in 1..NumVars : RLe(Zero, x[j])
    /\ \A i \in 1..NumCons : RLe(Dot(b0[i], x), c[i])

GridPoints == [1..NumVars -> {R(k) : k \in 0..GridMax}]

(* A direction along which the objective grows without leaving the         *)
(* feasible region.                                                        *)
UnboundedRay(d) ==
    /\ \A i \in 1..NumCons : RLe(Dot(b0[i], d), Zero)
    /\ RLt(Zero, Dot(A, d))

NonNegativeBounds == \A i \in 1..Len(c) : RLe(Zero, c[i])

HasFiniteMaximum ==
    /\ IsConsistent(A, b0, c)
    /\ NonNegativeBounds
    /\ ~ \E d \in GridPoints : UnboundedRay(d)

(* RHS entry of the objective row: the bottom-right cell.                  *)
ObjectiveValue(T) == T[Len(T)][Len(T[Len(T)])]

(* v is the maximum of the linear program: a feasible point attains it     *)
(* (its coordinates are 0 or RHS entries of the tableau), no feasible grid *)
(* point exceeds it, and the objective row's slack entries y are a dual    *)
(* certificate (y >= 0, y.b0 >= A column by column, y.c = v), which bounds *)
(* A.x by v at every feasible x.                                           *)
IsMaximumIn(T, v) ==
    LET rhs == {Zero} \cup {T[i][Len(T[i])] : i \in 1..NumCons}
        y == [i \in 1..NumCons |-> T[Len(T)][NumVars + i]]
        column(j) == [i \in 1..NumCons |-> b0[i][j]]
    IN  /\ \E x \in [1..NumVars -> rhs] : Feasible(x) /\ Dot(A, x) = v
        /\ \A x \in GridPoints : Feasible(x) => RLe(Dot(A, x), v)
        /\ \A i \in 1..NumCons : RLe(Zero, y[i])
        /\ \A j \in 1..NumVars : RLe(A[j], Dot(y, column(j)))
        /\ Dot(y, c) = v

(* C1: when a solver (func = 'max') returns on an input with non-negative  *)
(* bounds whose linear program has a finite maximum, the bottom-right cell *)
(* of the returned tableau is that maximum.                                *)
C1_ReturnsMaximum ==
    (pc = "returned" /\ func = "max" /\ HasFiniteMaximum)
        => IsMaximumIn(s_tableau, ObjectiveValue(s_tableau))

(* A solve that needed two pivots and returned a positive maximum.         *)
C1_Witness ==
    /\ pc = "returned" /\ func = "max" /\ HasFiniteMaximum
    /\ Len(trace) >= 2
    /\ RLt(Zero, ObjectiveValue(s_tableau))

----------------------------------------------------------------------------
(* Unbounded columns.                                                      *)

NoPositiveEntry(T, col) == \A i \in 1..(Len(T) - 1) : ~RLt(Zero, T[i][col])

(* The loop of simplex_w_counts (dense or sparse strategy) is about to     *)
(* select a pivot column without a positive entry in the constraint rows.  *)
UnboundedColumnSelected ==
    /\ pc = "loop" /\ solver = "simplex_w_counts"
    /\ matrix \in {"dense", "sparse"}
    /\ LoopCondition(s_tableau)
    /\ NoPositiveEntry(s_tableau, find_pivot_column(s_tableau))

(* C2: a pivot column without a strictly positive entry in the constraint  *)
(* rows ends the solve (no further iteration, no return of a tableau) and  *)
(* no pivot is performed on it.                                            *)
C2_UnboundedEndsSolve ==
    [][UnboundedColumnSelected => (pc' = "raised" /\ trace' = trace)]_vars

----------------------------------------------------------------------------
(* Unit columns.                                                           *)

IsUnitColumn(T, row, col) ==
    \A i \in 1..Len(T) : T[i][col] = IF i = row THEN One ELSE Zero

(* C3: after every pivot of the dense or the sparse executor the pivot     *)
(* column is a unit vector: 1 at the pivot row, 0 in every other row, the  *)
(* objective row included.                                                 *)
C3_PivotColumnUnit ==
    (pc \in {"loop", "returned"} /\ Len(trace) > 0)
        => IsUnitColumn(s_tableau, pivot_row_index, pivot_col_index)

----------------------------------------------------------------------------
(* Comparison of a call with the caller's first call.                      *)

(* The current call was given a list b equal to the one of the first call. *)
SameInputAsFirst == b = ExtendWithSlack(b0)

RECURSIVE ExtendTimes(_, _)
ExtendTimes(matB, k) ==
    IF k = 0 THEN matB ELSE ExtendWithSlack(ExtendTimes(matB, k - 1))

(* Every call so far was given the same list object b.                     *)
SameObjectsEveryCall == b = ExtendTimes(b0, calls)

IsPrefix(s, t) == Len(s) <= Len(t) /\ SubSeq(t, 1, Len(s)) = s

SameOutcomeAsFirst ==
    /\ pc = first.outcome
    /\ error = first.error
    /\ CurrentResult.tableau = first.tableau
    /\ trace = first.trace

(* C4: on the same input, simplex_w_counts with matrix = 'dense' and with  *)
(* matrix = 'sparse' pivot at the same coordinates and hold the same       *)
(* tableau after every pivot, and end alike.                               *)
C4_DenseSparseAgree ==
    (/\ calls = 2 /\ SameInputAsFirst
     /\ first.solver = "simplex_w_counts" /\ solver = "simplex_w_counts"
     /\ first.func = func
     /\ {first.matrix, matrix} = {"dense", "sparse"})
        => /\ IsPrefix(trace, first.trace)
           /\ Finished => SameOutcomeAsFirst

(* C5: on an input that simplex_w_counts (func = 'max', dense or sparse)   *)
(* solves, simplex returns as well, with the same final tableau.           *)
C5_SimplexAgreesWithCounts ==
    (/\ calls = 2 /\ SameInputAsFirst
     /\ first.solver = "simplex_w_counts" /\ first.func = "max"
     /\ first.matrix \in {"dense", "sparse"}
     /\ first.outcome = "returned"
     /\ solver = "simplex" /\ Finished)
        => (pc = "returned" /\ s_tableau = first.tableau)

----------------------------------------------------------------------------
(* C6: with a matrix strategy other than 'dense' and 'sparse' the solve    *)
(* does not go through a second iteration and returns no tableau.          *)
C6_UnknownStrategyAborts ==
    (solver = "simplex_w_counts" /\ matrix \notin {"dense", "sparse"})
        => (pc # "returned" /\ iters <= 1)

(* C7: when a constraint row's length differs from len(A) or len(c)        *)
(* differs from the number of rows, building fails: the solver raises      *)
(* before its loop and there is no tableau.                                *)
C7_MismatchRejected ==
    (pc # "idle" /\ ~IsConsistent(A, b0, c))
        => (pc = "raised" /\ iters = 0 /\ s_tableau = <<>>)

(* C8: a call that is given the list objects of all earlier calls and the  *)
(* configuration of the first call returns what the first call returned.   *)
C8_RepeatedCallsAgree ==
    (/\ calls >= 2 /\ SameObjectsEveryCall /\ Finished
     /\ first.outcome = "returned"
     /\ solver = first.solver /\ func = first.func /\ matrix = first.matrix)
        => (pc = "returned" /\ s_tableau = first.tableau)

(* C9: the setup of a solver leaves the caller's A, b and c as they were.  *)
C9_SetupLeavesInputs ==
    [][calls' = calls + 1 => (A' = A /\ b' = b /\ c' = c)]_vars

----------------------------------------------------------------------------
(* C10: from construction on the tableau has len(b) + 1 rows of            *)
(* len(A) + len(b) + 2 columns each.                                       *)
C10_TableauShape ==
    s_tableau # <<>>
        => /\ Len(s_tableau) = NumCons + 1
           /\ \A i \in 1..Len(s_tableau) :
                 Len(s_tableau[i]) = NumVars + NumCons + 2

(* A returned 3 x 6 tableau that went through two pivots.                  *)
C10_Witness ==
    /\ pc = "returned" /\ Len(trace) >= 2
    /\ NumVars = 2 /\ NumCons = 2
    /\ Len(s_tableau) = 3 /\ Len(s_tableau[1]) = 6

----------------------------------------------------------------------------
(* The tableau as built.                                                   *)

(* The setup has built the tableau and the loop has not run yet.           *)
JustBuilt == pc = "loop" /\ iters = 0

(* C11: right after the tableau is built from a dimensionally valid input, *)
(* the slack block is the identity: for constraint rows i and k the entry  *)
(* at row i, column len(A) + k is 1 when i = k and 0 otherwise.            *)
C11_SlackIdentity ==
    (JustBuilt /\ IsConsistent(A, b0, c))
        => \A i \in 1..NumCons : \A k \in 1..NumCons :
              s_tableau[i][NumVars + k] = IF i = k THEN One ELSE Zero

(* A tableau just built from two constraints in two variables.             *)
C11_Witness ==
    /\ JustBuilt /\ IsConsistent(A, b0, c)
    /\ NumVars = 2 /\ NumCons = 2
    /\ s_tableau[1][3] = One /\ s_tableau[2][3] = Zero

(* The cells outside the slack block: constraint row i holds b0[i] in the  *)
(* variable columns, 0 in the Z column and c[i] in the RHS column; the     *)
(* objective row holds objective in the variable columns, 0 in the slack   *)
(* columns, 1 in the Z column and 0 in the RHS column.                     *)
NonSlackCells(T, objective) ==
    LET n == NumVars
        m == NumCons
    IN  /\ \A i \in 1..m :
              /\ \A j \in 1..n : T[i][j] = b0[i][j]
              /\ T[i][n + m + 1] = Zero
              /\ T[i][n + m + 2] = c[i]
        /\ \A j \in 1..n : T[m + 1][j] = objective[j]
        /\ \A k \in 1..m : T[m + 1][n + k] = Zero
        /\ T[m + 1][n + m + 1] = One
        /\ T[m + 1][n + m + 2] = Zero

Negated(v) == [j \in 1..Len(v) |-> RNeg(v[j])]

(* C12 as stated: for every dimensionally valid input the built tableau    *)
(* holds, outside the slack block, the constraint coefficients, 0 in the Z *)
(* column and c[i] in the RHS column of constraint row i, and the negated  *)
(* objective coefficients, 0, 1 and 0 in the objective row.                *)
C12_NegatedObjectiveAlways ==
    (JustBuilt /\ IsConsistent(A, b0, c))
        => NonSlackCells(s_tableau, Negated(A))

(* C12, amended: the objective row holds the negated coefficients when the *)
(* solver is simplex or simplex_w_counts with func = 'max', and the        *)
(* coefficients as given with any other func; the other cells as stated.   *)
C12_NonSlackCells ==
    (JustBuilt /\ IsConsistent(A, b0, c))
        => NonSlackCells(s_tableau, IF func = "max" THEN Negated(A) ELSE A)

(* A built 2 x 2 tableau with func = 'max' and a non-zero objective.       *)
C12_Witness ==
    /\ JustBuilt /\ IsConsistent(A, b0, c) /\ func = "max"
    /\ NumVars = 2 /\ NumCons = 2
    /\ A[1] # Zero /\ s_tableau[3][1] = RNeg(A[1])

----------------------------------------------------------------------------
(* Tableaus that are optimal as built.                                     *)

(* The objective row has no negative entry outside the Z and RHS columns.  *)
NoNegativeObjectiveEntry(T) ==
    \A j \in 1..(Len(T[Len(T)]) - 2) : ~RLt(T[Len(T)][j], Zero)

(* The tableau the setup of the current call built.                        *)
InitialTableau == construct_simplex_tableau(NegateObjective(func, A), b, c)

(* C13: when the tableau as built has no negative objective-row entry      *)
(* outside Z and RHS, the loop performs no pivot and the solver returns    *)
(* the tableau as it was built.                                            *)
C13_OptimalAsBuilt ==
    (s_tableau # <<>> /\ NoNegativeObjectiveEntry(InitialTableau))
        => /\ pc \in {"loop", "returned"}
           /\ iters = 0 /\ trace = <<>>
           /\ s_tableau = InitialTableau

(* A solver returned a tableau that was optimal as built from an objective *)
(* with a negative coefficient.                                            *)
C13_Witness ==
    /\ pc = "returned" /\ iters = 0
    /\ NoNegativeObjectiveEntry(InitialTableau)
    /\ s_tableau = InitialTableau
    /\ \E j \in 1..NumVars : RLt(A[j], Zero)

----------------------------------------------------------------------------
(* Pivots of a solve.                                                      *)

(* The step performs a pivot: an executor has rewritten the tableau.       *)
PivotPerformed == Len(trace') = Len(trace) + 1

(* The input is in standard form: consistent dimensions and non-negative  *)
(* bounds, so that the tableau as built is a feasible basic solution.      *)
StandardForm == IsConsistent(A, b0, c) /\ NonNegativeBounds

(* C14: across every pivot of a solve the RHS entry of the objective row   *)
(* after the pivot is at least what it was before; stated for every input  *)
(* in standard form.                                                       *)
C14_ObjectiveNonDecreasing ==
    [][(StandardForm /\ PivotPerformed)
         => RLe(ObjectiveValue(s_tableau), ObjectiveValue(s_tableau'))]_vars

----------------------------------------------------------------------------
(* Operation counters of the two strategies.                               *)

(* An entry of A, of a row of b or of c is zero.                           *)
HasZeroEntry ==
    \/ \E j \in 1..Len(A) : A[j] = Zero
    \/ \E i \in 1..Len(b0) : \E j \in 1..Len(b0[i]) : b0[i][j] = Zero
    \/ \E i \in 1..Len(c) : c[i] = Zero

CountsLe(x, y) ==
    /\ x.comparisons <= y.comparisons
    /\ x.assignments <= y.assignments
    /\ x.arithmetic <= y.arithmetic
    /\ x.accesses <= y.accesses
    /\ x.func_calls <= y.func_calls

(* The first and the second call ran simplex_w_counts on the same input,   *)
(* one with matrix = 'dense' and one with matrix = 'sparse', and both      *)
(* returned.                                                               *)
DenseAndSparseReturned ==
    /\ calls = 2 /\ SameInputAsFirst
    /\ first.solver = "simplex_w_counts" /\ solver = "simplex_w_counts"
    /\ first.func = func
    /\ {first.matrix, matrix} = {"dense", "sparse"}
    /\ first.outcome = "returned" /\ pc = "returned"

(* C15: on an input with a zero entry, each of the five counters returned  *)
(* with matrix = 'sparse' is at most the same counter returned with        *)
(* matrix = 'dense' on the same input.                                     *)
C15_SparseCountsAtMostDense ==
    (DenseAndSparseReturned /\ HasZeroEntry)
        => IF matrix = "sparse" THEN CountsLe(counts, first.counts)
                                ELSE CountsLe(first.counts, counts)

(* Both strategies returned after two pivots on an input with a zero entry *)
(* and the sparse run counted fewer arithmetic operations and accesses.    *)
C15_Witness ==
    /\ DenseAndSparseReturned /\ HasZeroEntry
    /\ matrix = "sparse" /\ Len(trace) >= 2
    /\ counts.arithmetic < first.counts.arithmetic
    /\ counts.accesses < first.counts.accesses

----------------------------------------------------------------------------
(* The scenarios of the specification.                                     *)

(* maximize 3 x1 + 2 x2 subject to x1 + x2 <= 4, x1 + 3 x2 <= 6.           *)
TwoVariableScenario ==
    /\ A = ToVec(<<3, 2>>)
    /\ b0 = ToMat(<<(<<1, 1>>), (<<1, 3>>)>>)
    /\ c = ToVec(<<4, 6>>)

(* maximize x1 subject to x1 <= 5.                                         *)
OneVariableScenario ==
    /\ A = ToVec(<<1>>)
    /\ b0 = ToMat(<<(<<1>>)>>)
    /\ c = ToVec(<<5>>)

RHS(T, i) == T[i][Len(T[i])]

(* C16: solving A = [3, 2], b = [[1, 1], [1, 3]], c = [4, 6] (simplex, or  *)
(* simplex_w_counts with func = 'max' and the dense or sparse strategy)    *)
(* ends by returning a tableau whose objective row has RHS 12, whose x1    *)
(* column is a unit vector with RHS 4 in its row and whose x2 column is    *)
(* not a unit vector (x2 is non-basic, value 0).                           *)
C16_TwoVariableOptimum ==
    (TwoVariableScenario /\ func = "max" /\ matrix \in {"dense", "sparse"}
       /\ Finished)
        => /\ pc = "returned"
           /\ ObjectiveValue(s_tableau) = R(12)
           /\ \E r \in 1..NumCons :
                 IsUnitColumn(s_tableau, r, 1) /\ RHS(s_tableau, r) = R(4)
           /\ ~ \E r \in 1..(NumCons + 1) : IsUnitColumn(s_tableau, r, 2)

(* C17: simplex_w_counts (func = 'max', dense or sparse) on A = [1],       *)
(* b = [[1]], c = [5] enters its loop, performs one pivot, after which the *)
(* objective row has no negative entry, and returns with RHS 5 in the      *)
(* objective row.                                                          *)
C17_OneVariableOptimum ==
    (/\ OneVariableScenario /\ solver = "simplex_w_counts"
     /\ func = "max" /\ matrix \in {"dense", "sparse"})
        => /\ pc \in {"loop", "returned"}
           /\ iters <= 1 /\ Len(trace) = iters
           /\ iters = 0 => (pc = "loop" /\ ~NoNegativeObjectiveEntry(s_tableau))
           /\ iters = 1 => /\ NoNegativeObjectiveEntry(s_tableau)
                           /\ ObjectiveValue(s_tableau) = R(5)

(* The call on A = [1], b = [[1]], c = [5] has returned after its pivot.   *)
C17_Witness ==
    /\ OneVariableScenario /\ solver = "simplex_w_counts"
    /\ func = "max" /\ matrix \in {"dense", "sparse"}
    /\ pc = "returned" /\ Len(trace) = 1
    /\ ObjectiveValue(s_tableau) = R(5)

----------------------------------------------------------------------------
(* Feasibility and the pivot element.                                      *)

(* An iteration of the loop starts: the loop condition has just held.      *)
IterationStarts == pc = "loop" /\ LoopCondition(s_tableau)

(* C18: at the start of every iteration of the loop the RHS entry of every *)
(* constraint row is non-negative; stated for every input in standard      *)
(* form.                                                                   *)
C18_FeasibleAtIterationStart ==
    (StandardForm /\ IterationStarts)
        => \A i \in 1..(Len(s_tableau) - 1) : RLe(Zero, RHS(s_tableau, i))

(* The step hands the selected row and column to an executor.              *)
PivotSelected ==
    /\ solver = "simplex_w_counts" /\ matrix \in {"dense", "sparse"}
    /\ iters' = iters + 1

(* C19: the pivot element of every pivot is strictly positive: the row     *)
(* selector hands the executor no zero and no negative pivot.              *)
C19_PivotElementPositive ==
    [][PivotSelected
         => RLt(Zero, s_tableau[pivot_row_index'][pivot_col_index'])]_vars

----------------------------------------------------------------------------
(* Termination.                                                            *)

(* The tableau the k-th pivot of the current call was performed on.        *)
PrePivot(k) == IF k = 1 THEN InitialTableau ELSE trace[k - 1][3]

(* The pivot at (row, col) of T has a positive element and a positive      *)
(* ratio.                                                                  *)
NonDegeneratePivot(T, row, col) ==
    RLt(Zero, T[row][col]) /\ RLt(Zero, RDiv(RHS(T, row), T[row][col]))

(* The input has non-negative bounds, every pivot performed so far had a   *)
(* constraint row with a positive pivot-column entry and a positive ratio, *)
(* and so has the pivot the tableau now asks for, if it asks for one.      *)
NonDegenerateRun ==
    /\ StandardForm
    /\ s_tableau # <<>>
    /\ \A k \in 1..Len(trace) :
          NonDegeneratePivot(PrePivot(k), trace[k][1], trace[k][2])
    /\ ~NoNegativeObjectiveEntry(s_tableau)
          => LET col == find_pivot_column(s_tableau)
                 row == calculate_quotients_and_find_pivot_row(s_tableau, col)
             IN  NonDegeneratePivot(s_tableau, row, col)

(* C20: on an input with non-negative bounds whose pivots all have a       *)
(* positive pivot-column entry and a positive ratio, the solve does not    *)
(* end otherwise than by returning, and the returned tableau has no        *)
(* negative objective-row entry outside Z and RHS.                         *)
C20_NonDegenerateSolveReturns ==
    NonDegenerateRun
        => /\ pc # "raised"
           /\ pc = "returned" => NoNegativeObjectiveEntry(s_tableau)

----------------------------------------------------------------------------
(* Pivot selection.                                                        *)

(* The step runs the column and the row selector of simplex_w_counts on    *)
(* s_tableau and leaves their results in pivot_col_index' and              *)
(* pivot_row_index'.                                                       *)
SelectorsRun == solver = "simplex_w_counts" /\ iters' = iters + 1

Ratio(T, i, col) == RDiv(RHS(T, i), T[i][col])

(* row is a constraint row of T and, when some constraint row has a        *)
(* positive entry in column col, row has one, its ratio is the least among *)
(* the rows with a positive entry, and no lower row with a positive entry  *)
(* has the same ratio.                                                     *)
IsMinimumRatioRow(T, col, row) ==
    LET positive == {i \in 1..(Len(T) - 1) : RLt(Zero, T[i][col])}
    IN  /\ row \in 1..(Len(T) - 1)
        /\ positive # {}
              => /\ row \in positive
                 /\ \A i \in positive :
                       /\ RLe(Ratio(T, row, col), Ratio(T, i, col))
                       /\ Ratio(T, i, col) = Ratio(T, row, col) => row <= i

(* C21: row selection returns a constraint row, never the objective row;   *)
(* when a row has a positive pivot-column entry it returns the row of      *)
(* minimum ratio RHS / entry among the rows with a positive entry, never a *)
(* row with a zero or negative entry, and the lowest index among the rows  *)
(* of minimum ratio.                                                       *)
C21_RowSelection ==
    [][SelectorsRun
         => IsMinimumRatioRow(s_tableau, pivot_col_index', pivot_row_index')]_vars

(* A pivot was performed at the lower of two rows of equal ratio, or at a  *)
(* row below a row with a negative pivot-column entry.                     *)
C21_Witness ==
    /\ pc \in {"loop", "returned"} /\ Len(trace) >= 1
    /\ LET k == Len(trace)
           T == PrePivot(k)
           row == trace[k][1]
           col == trace[k][2]
       IN  /\ IsMinimumRatioRow(T, col, row)
           /\ \/ \E i \in (row + 1)..(Len(T) - 1) :
                    RLt(Zero, T[i][col]) /\ Ratio(T, i, col) = Ratio(T, row, col)
              \/ \E i \in 1..(row - 1) : RLt(T[i][col], Zero)

(* col is a decision or slack column of T holding the minimum of the       *)
(* objective row over these columns, and no lower column holds it.         *)
IsFirstMinimumColumn(T, col) ==
    LET last == Len(T)
        columns == 1..(Len(T[last]) - 2)
    IN  /\ col \in columns
        /\ \A j \in columns :
              /\ RLe(T[last][col], T[last][j])
              /\ T[last][j] = T[last][col] => col <= j

(* C22: column selection returns the index of the minimum of the objective *)
(* row over the decision and slack columns, never the Z or the RHS column, *)
(* and the lowest index when several columns hold the minimum.             *)
C22_ColumnSelection ==
    [][SelectorsRun => IsFirstMinimumColumn(s_tableau, pivot_col_index')]_vars

(* A pivot was performed in the first of two columns holding the minimum   *)
(* of the objective row.                                                   *)
C22_Witness ==
    /\ pc \in {"loop", "returned"} /\ Len(trace) >= 1
    /\ LET T == PrePivot(1)
           col == trace[1][2]
       IN  /\ IsFirstMinimumColumn(T, col)
           /\ \E j \in (col + 1)..(Len(T[1]) - 2) :
                 T[Len(T)][j] = T[Len(T)][col]

----------------------------------------------------------------------------
(* The Z column.                                                           *)

(* The Z column of T, the last but one, is 0 in the constraint rows and 1  *)
(* in the objective row.                                                   *)
ZColumnIsUnit(T) ==
    \A i \in 1..Len(T) :
        T[i][Len(T[i]) - 1] = IF i = Len(T) THEN One ELSE Zero

(* C23: in every state of a solve, from the built tableau through every    *)
(* pivot to the returned tableau, the Z column is 1 in the objective row   *)
(* and 0 in every constraint row.                                          *)
C23_ZColumn == s_tableau # <<>> => ZColumnIsUnit(s_tableau)

====
